---- MODULE Spec2Model ----
(***************************************************************************)
(* A model of the VASUKI chatbot's turn pipeline: the in-memory session    *)
(* stores of main.py, process_query of query_processor.py, the intent      *)
(* classifiers of llm_utils.py and the slot store of session_manager.py.   *)
(*                                                                         *)
(* Texts are sequences of one-character strings, so that lower(),          *)
(* strip(), replace() and the "in" substring test are computed, not        *)
(* assumed.                                                                *)
(***************************************************************************)
EXTENDS Integers, Sequences, FiniteSets, TLC

VARIABLES
    llm_application_components,      \* main.py: what startup_event stored
    startup_done,                    \* whether startup_event has run
    conversation_histories,          \* main.py: conv id -> list of messages
    conversation_last_activity,      \* main.py: conv id -> time of last turn
    product_recommendation_sessions, \* query_processor.py: conv id -> cursor
    user_sessions,                   \* session_manager.py: id -> slot state
    clock,                           \* time.time(), in seconds
    handlers,                        \* request handlers in flight
    steps,                           \* turns and clock ticks taken so far
    event                            \* the last operation and what it did

server_vars ==
    <<llm_application_components, startup_done, conversation_histories,
      conversation_last_activity, clock, handlers, steps>>

vars ==
    <<llm_application_components, startup_done, conversation_histories,
      conversation_last_activity, product_recommendation_sessions,
      user_sessions, clock, handlers, steps, event>>

(***************************************************************************)
(* Bounds of the model.                                                    *)
(***************************************************************************)
MaxResults == 7      \* longest result set a cursor is seeded with

ConvIds == {"A", "B"}

(***************************************************************************)
(* Python str operations, on sequences of characters.                      *)
(***************************************************************************)
UpperAlpha == <<"A", "B", "C", "D", "E", "F", "G", "H", "I", "J", "K", "L", "M", "N", "O", "P", "Q", "R", "S", "T", "U", "V", "W", "X", "Y", "Z">>
LowerAlpha == <<"a", "b", "c", "d", "e", "f", "g", "h", "i", "j", "k", "l", "m", "n", "o", "p", "q", "r", "s", "t", "u", "v", "w", "x", "y", "z">>

LowerChar(c) ==
    IF \E i \in 1..Len(UpperAlpha) : UpperAlpha[i] = c
    THEN LowerAlpha[CHOOSE i \in 1..Len(UpperAlpha) : UpperAlpha[i] = c]
    ELSE c

\* str.lower()
Lower(s) == [i \in 1..Len(s) |-> LowerChar(s[i])]

Whitespace == {" ", "\t", "\n", "\r"}

RECURSIVE LStrip(_)
LStrip(s) ==
    IF s # <<>> /\ Head(s) \in Whitespace THEN LStrip(Tail(s)) ELSE s

RECURSIVE RStrip(_)
RStrip(s) ==
    IF s # <<>> /\ s[Len(s)] \in Whitespace
    THEN RStrip(SubSeq(s, 1, Len(s) - 1))
    ELSE s

\* str.strip()
Strip(s) == RStrip(LStrip(s))

\* str.replace(".", "")
RemoveDots(s) == SelectSeq(s, LAMBDA c : c # ".")

\* the substring test  w in s
Contains(s, w) ==
    \E i \in 1..(Len(s) - Len(w) + 1) : SubSeq(s, i, i + Len(w) - 1) = w

\* str.endswith
EndsWith(s, w) ==
    Len(s) >= Len(w) /\ SubSeq(s, Len(s) - Len(w) + 1, Len(s)) = w

\* any(kw in s for kw in kws), kws a sequence of texts
AnyIn(kws, s) == \E k \in 1..Len(kws) : Contains(s, kws[k])

\* "sep".join(parts)
RECURSIVE Join(_, _)
Join(sep, parts) ==
    IF parts = <<>> THEN <<>>
    ELSE IF Len(parts) = 1 THEN parts[1]
    ELSE parts[1] \o sep \o Join(sep, Tail(parts))

\* re.sub(r'[ \t]{2,}', ' ', s): every maximal run of two or more blanks
\* becomes one space; a single tab stays a tab.
Blank == {" ", "\t"}

RECURSIVE CollapseBlanks(_)
CollapseBlanks(s) ==
    IF Len(s) < 2 THEN s
    ELSE IF s[1] \in Blank /\ s[2] \in Blank
         THEN LET rest == CollapseBlanks(Tail(s))
              IN  <<" ">> \o (IF rest # <<>> /\ rest[1] \in Blank
                              THEN Tail(rest) ELSE rest)
         ELSE <<s[1]>> \o CollapseBlanks(Tail(s))

(***************************************************************************)
(* llm_utils.py: the two intent classifiers.                               *)
(***************************************************************************)
product_query   == <<"p", "r", "o", "d", "u", "c", "t", "_", "q", "u", "e", "r", "y">>
return_policy   == <<"r", "e", "t", "u", "r", "n", "_", "p", "o", "l", "i", "c", "y">>
shipping_policy == <<"s", "h", "i", "p", "p", "i", "n", "g", "_", "p", "o", "l", "i", "c", "y">>
privacy_policy  == <<"p", "r", "i", "v", "a", "c", "y", "_", "p", "o", "l", "i", "c", "y">>
general_faq     == <<"g", "e", "n", "e", "r", "a", "l", "_", "f", "a", "q">>
greeting        == <<"g", "r", "e", "e", "t", "i", "n", "g">>
compliment      == <<"c", "o", "m", "p", "l", "i", "m", "e", "n", "t">>
other           == <<"o", "t", "h", "e", "r">>

valid_intents ==
    <<product_query, return_policy, shipping_policy, privacy_policy,
      general_faq, greeting, compliment, other>>

ValidIntentSet == {valid_intents[i] : i \in 1..Len(valid_intents)}

\* What a chain or a retriever can do: raise, with the text of the
\* exception, or return a value.
ErrorText == <<"4", "0", "1", " ", "k", "e", "y">>
Raised == [raised |-> TRUE, value |-> ErrorText]
Returned(v) == [raised |-> FALSE, value |-> v]

LlmOutputs ==
    { product_query,
      <<" ", "S", "h", "i", "p", "p", "i", "n", "g", "_", "P", "o", "l", "i", "c", "y", ".", "\n">>,
      general_faq,
      greeting,
      compliment,
      other,
      <<"t", "h", "e", " ", "g", "r", "e", "e", "t", "i", "n", "g">>,
      <<"u", "n", "s", "u", "r", "e">> }

LlmResults == {Raised} \cup {Returned(t) : t \in LlmOutputs}

\* response.strip().lower().replace(".", "")
CleanIntent(response) == RemoveDots(Lower(Strip(response)))

classify_intent_with_llm(llm) ==
    IF llm.raised THEN other
    ELSE LET cleaned_intent == CleanIntent(llm.value)
         IN  IF cleaned_intent \in ValidIntentSet THEN cleaned_intent
             ELSE IF \E i \in 1..Len(valid_intents) :
                        Contains(cleaned_intent, valid_intents[i])
                  THEN valid_intents[
                         CHOOSE i \in 1..Len(valid_intents) :
                           /\ Contains(cleaned_intent, valid_intents[i])
                           /\ \A j \in 1..(i - 1) :
                                ~Contains(cleaned_intent, valid_intents[j])]
                  ELSE other

GreetingKeywords == <<<<"h", "e", "l", "l", "o">>, <<"h", "i">>, <<"h", "e", "y">>, <<"g", "o", "o", "d", " ", "m", "o", "r", "n", "i", "n", "g">>, <<"n", "a", "m", "a", "s", "t", "e">>>>
ReturnKeywords   == <<<<"r", "e", "t", "u", "r", "n">>, <<"r", "e", "f", "u", "n", "d">>, <<"e", "x", "c", "h", "a", "n", "g", "e">>>>
ShippingKeywords == <<<<"s", "h", "i", "p", "p", "i", "n", "g">>, <<"d", "e", "l", "i", "v", "e", "r", "y">>, <<"t", "r", "a", "c", "k">>>>
PrivacyKeywords  == <<<<"p", "r", "i", "v", "a", "c", "y">>, <<"d", "a", "t", "a">>, <<"p", "e", "r", "s", "o", "n", "a", "l", " ", "i", "n", "f", "o", "r", "m", "a", "t", "i", "o", "n">>>>
ComplimentKeywords == <<<<"t", "h", "a", "n", "k", " ", "y", "o", "u">>, <<"g", "r", "e", "a", "t">>, <<"a", "w", "e", "s", "o", "m", "e">>, <<"l", "o", "v", "e", " ", "i", "t">>>>
ProductKeywords ==
    <<<<"p", "r", "o", "d", "u", "c", "t">>, <<"i", "t", "e", "m">>, <<"j", "e", "w", "e", "l", "r", "y">>, <<"r", "i", "n", "g">>, <<"n", "e", "c", "k", "l", "a", "c", "e">>, <<"p", "r", "i", "c", "e">>,
      <<"c", "o", "s", "t">>, <<"b", "u", "y">>, <<"f", "i", "n", "d">>, <<"s", "h", "o", "w", " ", "m", "e">>>>

\* Mutant: the final return is missing, and a query that matches no keyword
\* gets None.
classify_intent_rules_without_default(query) ==
    LET query_lower == Lower(query)
    IN  IF AnyIn(GreetingKeywords, query_lower) THEN greeting
        ELSE IF AnyIn(ReturnKeywords, query_lower) THEN return_policy
        ELSE IF AnyIn(ShippingKeywords, query_lower) THEN shipping_policy
        ELSE IF AnyIn(PrivacyKeywords, query_lower) THEN privacy_policy
        ELSE IF AnyIn(ComplimentKeywords, query_lower) THEN compliment
        ELSE IF AnyIn(ProductKeywords, query_lower) THEN product_query
        ELSE <<>>

classify_intent_rules(query) ==
    LET query_lower == Lower(query)
    IN  IF AnyIn(GreetingKeywords, query_lower) THEN greeting
        ELSE IF AnyIn(ReturnKeywords, query_lower) THEN return_policy
        ELSE IF AnyIn(ShippingKeywords, query_lower) THEN shipping_policy
        ELSE IF AnyIn(PrivacyKeywords, query_lower) THEN privacy_policy
        ELSE IF AnyIn(ComplimentKeywords, query_lower) THEN compliment
        ELSE IF AnyIn(ProductKeywords, query_lower) THEN product_query
        ELSE general_faq

(***************************************************************************)
(* Response texts.  A response is a record: a formatted batch of product   *)
(* records, one of the fixed messages, one of the canned greetings, or     *)
(* text returned by a generation chain.                                    *)
(***************************************************************************)
Text(kind, id, choice, header, items, tail, text) ==
    [kind |-> kind, id |-> id, choice |-> choice, header |-> header,
     items |-> items, tail |-> tail, text |-> text]

Fixed(id) == Text("fixed", id, 0, FALSE, <<>>, "", <<>>)
Canned(id, choice) == Text("canned", id, choice, FALSE, <<>>, "", <<>>)
Generated(text) == Text("generated", "", 0, FALSE, <<>>, "", text)
Plain(text) == Text("plain", "", 0, FALSE, <<>>, "", text)
Batch(header, items, tail) == Text("batch", "", 0, header, items, tail, <<>>)

\* The fixed messages of process_query.
NotInitializedMessage == Fixed("not_initialized")         \* line 69
NoMoreProductsMessage == Fixed("no_more_products")        \* line 89
NoResultsApology      == Fixed("no_results_apology")      \* line 143
WhatIsVasukiAnswer    == Fixed("what_is_vasuki")          \* line 164
FallbackMessage       == Fixed("fallback_other")          \* line 170
GenericApology        == Fixed("generic_apology")         \* line 174

(***************************************************************************)
(* database_utils.py: format_product_results.  A product record is         *)
(* modelled by its identifier; a formatted entry keeps the number it is    *)
(* listed under and the record.                                            *)
(***************************************************************************)
Min(a, b) == IF a < b THEN a ELSE b

format_product_results(results, start_index, batch_size) ==
    IF results = <<>> THEN Batch(FALSE, <<>>, "")
    ELSE LET end_index == start_index + batch_size
             last == Min(end_index, Len(results))
             n == IF last > start_index THEN last - start_index ELSE 0
         IN  Batch(start_index = 0,
                   [k \in 1..n |->
                      [number |-> start_index + k,
                       record |-> results[start_index + k]]],
                   "")

(***************************************************************************)
(* query_processor.py: process_query.                                      *)
(***************************************************************************)
ContinuationWords ==
    <<<<"y", "e", "s">>, <<"m", "o", "r", "e">>, <<"s", "h", "o", "w", " ", "m", "o", "r", "e">>, <<"s", "u", "r", "e">>, <<"o", "k">>, <<"g", "i", "v", "e", " ", "m", "e", " ", "m", "o", "r", "e">>>>

HowAreYou == <<"h", "o", "w", " ", "a", "r", "e", " ", "y", "o", "u">>
HowAreYouChoices == 3

\* The greetings dict, in insertion order: trigger, number of responses.
greetings ==
    << [trigger |-> <<"g", "o", "o", "d", " ", "m", "o", "r", "n", "i", "n", "g">>, id |-> "good morning", choices |-> 3],
       [trigger |-> <<"g", "o", "o", "d", " ", "e", "v", "e", "n", "i", "n", "g">>, id |-> "good evening", choices |-> 2],
       [trigger |-> <<"n", "a", "m", "a", "s", "t", "e">>,      id |-> "namaste",      choices |-> 2],
       [trigger |-> <<"h", "e", "l", "l", "o">>,        id |-> "hello",        choices |-> 2],
       [trigger |-> <<"h", "i">>,           id |-> "hi",           choices |-> 2],
       [trigger |-> <<"h", "e", "y">>,          id |-> "hey",          choices |-> 2] >>

FallbackGreetingChoices == 3

PolicySuffix == <<"_", "p", "o", "l", "i", "c", "y">>
WhatIsVasuki == <<"w", "h", "a", "t", " ", "i", "s", " ", "v", "a", "s", "u", "k", "i">>

DispatchIntents ==
    {product_query, return_policy, shipping_policy, privacy_policy,
     general_faq, greeting}

BatchSize == 3

\* del d[k]
Del(d, k) == [x \in (DOMAIN d) \ {k} |-> d[x]]

\* d[k] = v
Put(d, k, v) == [x \in (DOMAIN d) \cup {k} |-> IF x = k THEN v ELSE d[x]]

\* What retrieval and generation can do in one turn.
Documents ==
    { <<>>,
      << <<"r", "1">>, <<"r", "2">> >>,
      << <<"r", "1">>, <<"r", "2">>, <<"r", "3">>, <<"r", "4">> >> }
RetrievalResults == {Raised} \cup {Returned(d) : d \in Documents}

GeneratedTexts == { <<"s", "e", "e", " ", " ", "r", "1", " ">> }
GenerationResults == {Raised} \cup {Returned(t) : t \in GeneratedTexts}

\* Every behaviour of the collaborators.
AnyWorld ==
    [llm |-> LlmResults, retrieval |-> RetrievalResults,
     generation |-> GenerationResults]

\* The identifier a product page is indexed with ("SKU: ..." in its text
\* and in its metadata).
SkuOf(record) == <<"R", "I", "N", "G", "0">> \o <<record[2]>>

\* get_context_from_vector_store: "" on any error, else the joined pages.
get_context_from_vector_store(has_embedding_model, retrieval) ==
    IF ~has_embedding_model THEN <<>>
    ELSE IF retrieval.raised THEN <<>>
    ELSE Join(<<"\n", "\n">>, retrieval.value)

\* line 74: the turn is handled as a continuation
IsShowMore(conversation_id, query_lower, sessions) ==
    /\ conversation_id \in DOMAIN sessions
    /\ AnyIn(ContinuationWords, query_lower)

\* Mutant: "<=" for "<" at line 83, so a cursor that has reached the end
\* of its result set is kept and the prompt is appended.
ShowMoreKeepsSpentCursor(conversation_id, sessions) ==
    LET session == sessions[conversation_id]
        results == session.results
        start_index == session.index
        formatted_products ==
          format_product_results(results, start_index, BatchSize)
        index == start_index + BatchSize
    IN  IF index <= Len(results)
        THEN [response |-> [formatted_products EXCEPT !.tail = "prompt"],
              sessions |-> [sessions EXCEPT ![conversation_id].index = index]]
        ELSE [response |-> [formatted_products EXCEPT !.tail = "closing"],
              sessions |-> Del(sessions, conversation_id)]

\* lines 75-91: the next batch; the cursor advances or is deleted
ShowMore(conversation_id, sessions) ==
    LET session == sessions[conversation_id]
        results == session.results
        start_index == session.index
    IN  IF start_index < Len(results)
        THEN LET formatted_products ==
                   format_product_results(results, start_index, BatchSize)
                 index == start_index + BatchSize
             IN  IF index < Len(results)
                 THEN [response |-> [formatted_products EXCEPT !.tail = "prompt"],
                       sessions |-> [sessions EXCEPT
                                       ![conversation_id].index = index]]
                 ELSE [response |-> [formatted_products EXCEPT !.tail = "closing"],
                       sessions |-> Del(sessions, conversation_id)]
        ELSE [response |-> NoMoreProductsMessage,
              sessions |-> Del(sessions, conversation_id)]

\* Mutant: a new query leaves the cursor in place.
KeepPreviousSession(conversation_id, sessions) == sessions

\* lines 94-95: a new query drops the conversation's cursor
ClearPreviousSession(conversation_id, sessions) ==
    IF conversation_id \in DOMAIN sessions
    THEN Del(sessions, conversation_id)
    ELSE sessions

\* Mutant: the model classifier's label is final, "other" included.
FinalIntentWithoutFallback(llm_intent, query_text) == llm_intent

\* lines 120-122: the intent the turn is dispatched under
FinalIntent(llm_intent, query_text) ==
    IF llm_intent \notin DispatchIntents
    THEN classify_intent_rules(query_text)
    ELSE llm_intent

\* line 177: the final cleanup of the response string
FinalCleanup(draft_response) ==
    IF draft_response.kind = "generated"
    THEN Generated(Strip(CollapseBlanks(draft_response.text)))
    ELSE draft_response

\* A chain or retriever that was not called in the turn.
NotCalled == [raised |-> FALSE, value |-> <<>>]

\* What one call of process_query did: the branch taken, the calls made to
\* the collaborators with their results, the response returned and the
\* cursor store it leaves.
Outcome(path, llm, intent, collection, retrieval, context, chain, generation, response, sessions) ==
    [path |-> path, llm_called |-> llm.called, llm |-> llm.result,
     llm_intent |-> llm.intent,
     intent |-> intent, collection |-> collection, retrieval |-> retrieval,
     context |-> context, chain |-> chain, generation |-> generation,
     response |-> response, sessions |-> sessions]

\* The model classifier's part in a turn: whether it was called, what the
\* chain did and the label classify_intent_with_llm made of it.
NoClassification == [called |-> FALSE, result |-> NotCalled, intent |-> <<>>]
Classification(result) ==
    [called |-> TRUE, result |-> result,
     intent |-> classify_intent_with_llm(result)]

Shortcut(path, response, sessions) ==
    Outcome(path, NoClassification, <<>>, "", NotCalled, <<>>, "", NotCalled,
            response, sessions)

\* Mutant: the chain is invoked whatever the context.
NoContextIgnored(context) == FALSE

\* Mutant: the except clause puts the text of the exception in the reply.
DraftOfChainLeaksError(generation) == Generated(generation.value)

\* lines 127, 172-174: the draft a chain's answer makes; any exception of
\* the try block is replaced by the generic apology
DraftOfChain(generation) ==
    IF generation.raised THEN GenericApology ELSE Generated(generation.value)

\* line 142: "if not context"
NoContext(context) == context = <<>>

\* lines 136-154: the product_query branch
ProductBranch(llm, intent, has_embedding_model, sessions, world) ==
    UNION {
      LET context == get_context_from_vector_store(has_embedding_model, r)
      IN  IF NoContext(context)
          THEN { Outcome("classified", llm, intent, "products", r,
                         context, "", NotCalled,
                         FinalCleanup(NoResultsApology), sessions) }
          ELSE { Outcome("classified", llm, intent, "products", r,
                         context, "shopify_qa", g,
                         FinalCleanup(DraftOfChain(g)), sessions)
                 : g \in world.generation }
      : r \in world.retrieval }

\* lines 157-167: a chain that is invoked with whatever context was found
RagBranch(llm, intent, collection, chain, has_embedding_model, sessions, world) ==
    { Outcome("classified", llm, intent, collection, rg[1],
              get_context_from_vector_store(has_embedding_model, rg[1]),
              chain, rg[2],
              FinalCleanup(DraftOfChain(rg[2])), sessions)
      : rg \in world.retrieval \X world.generation }

\* lines 125-178: the branch of the final intent
Dispatch(llm, intent, query_text, has_embedding_model, sessions, world) ==
    IF intent = greeting
    THEN { Outcome("classified", llm, intent, "", NotCalled, <<>>, "",
                   NotCalled, Canned("fallback_greeting", i), sessions)
           : i \in 1..FallbackGreetingChoices }
    ELSE IF intent = product_query
    THEN ProductBranch(llm, intent, has_embedding_model, sessions, world)
    ELSE IF EndsWith(intent, PolicySuffix)
    THEN RagBranch(llm, intent, "policies", "policy", has_embedding_model,
                   sessions, world)
    ELSE IF intent = general_faq
    THEN IF Contains(Lower(query_text), WhatIsVasuki)
         THEN { Outcome("classified", llm, intent, "", NotCalled, <<>>,
                        "", NotCalled, FinalCleanup(WhatIsVasukiAnswer),
                        sessions) }
         ELSE RagBranch(llm, intent, "faqs", "faq", has_embedding_model,
                        sessions, world)
    ELSE { Outcome("classified", llm, intent, "", NotCalled, <<>>, "",
                   NotCalled, FinalCleanup(FallbackMessage), sessions) }

\* lines 99-115: the greeting short-cuts, tried before classification
GreetingTrigger(query_lower) ==
    IF Contains(query_lower, HowAreYou) THEN 0
    ELSE IF \E i \in 1..Len(greetings) : Contains(query_lower, greetings[i].trigger)
    THEN CHOOSE i \in 1..Len(greetings) :
           /\ Contains(query_lower, greetings[i].trigger)
           /\ \A j \in 1..(i - 1) : ~Contains(query_lower, greetings[j].trigger)
    ELSE -1

\* process_query: the set of outcomes of one call.  components is the
\* record of what llm_app_components holds, sessions the cursor store, world
\* what the intent chain, the retriever and the generation chains may do.
process_query(query_text, conversation_history, components, conversation_id, sessions, world) ==
    LET query_lower == Strip(Lower(query_text))
    IN  IF ~components.llm_chains
        THEN { Shortcut("not_initialized", NotInitializedMessage, sessions) }
        ELSE IF IsShowMore(conversation_id, query_lower, sessions)
        THEN LET more == ShowMore(conversation_id, sessions)
             IN  { Shortcut("show_more", more.response, more.sessions) }
        ELSE LET cleared == ClearPreviousSession(conversation_id, sessions)
                 trigger == GreetingTrigger(query_lower)
             IN  IF trigger = 0
                 THEN { Shortcut("greeting_shortcut", Canned("how are you", i),
                                 cleared) : i \in 1..HowAreYouChoices }
                 ELSE IF trigger > 0
                 THEN { Shortcut("greeting_shortcut",
                                 Canned(greetings[trigger].id, i), cleared)
                        : i \in 1..greetings[trigger].choices }
                 ELSE UNION {
                        LET llm == Classification(result)
                        IN  Dispatch(llm, FinalIntent(llm.intent, query_text),
                                     query_text, components.embedding_model,
                                     cleared, world)
                        : result \in world.llm }

(***************************************************************************)
(* main.py: startup, the session stores and the two transports.            *)
(***************************************************************************)
MAX_HISTORY_LENGTH == 10
SESSION_TIMEOUT_SECONDS == 1200

\* llm_application_components before startup_event: an empty dict.
NoComponents ==
    [embedding_model |-> FALSE, llm |-> FALSE, llm_chains |-> FALSE,
     initialization_error |-> <<>>]

\* startup_event, failing at the given stage ("" when nothing fails): the
\* components stored before the failure stay, and the error text is stored.
StartupFailures == {"", "embedding_model", "llm", "llm_chains"}

startup_event(failure) ==
    IF failure = "embedding_model"
    THEN [NoComponents EXCEPT !.initialization_error = <<failure>>]
    ELSE IF failure = "llm"
    THEN [NoComponents EXCEPT !.embedding_model = TRUE,
                              !.initialization_error = <<failure>>]
    ELSE IF failure = "llm_chains"
    THEN [NoComponents EXCEPT !.embedding_model = TRUE, !.llm = TRUE,
                              !.initialization_error = <<failure>>]
    ELSE [NoComponents EXCEPT !.embedding_model = TRUE, !.llm = TRUE,
                              !.llm_chains = TRUE]

\* Mutant: dict.clear(), every conversation's entry goes.
PopEverything(d, k) == <<>>

\* dict.pop(k, None)
Pop(d, k) == IF k \in DOMAIN d THEN Del(d, k) ELSE d

\* Mutant: list[:n], the oldest entries are kept.
FirstN(s, n) == IF Len(s) <= n THEN s ELSE SubSeq(s, 1, n)

\* Mutant: the slice keeps one entry fewer.
LastNOffByOne(s, n) ==
    IF Len(s) <= n - 1 THEN s ELSE SubSeq(s, Len(s) - n + 2, Len(s))

\* list[-n:]
LastN(s, n) == IF Len(s) <= n THEN s ELSE SubSeq(s, Len(s) - n + 1, Len(s))

\* Mutant: the session times out at the timeout, not after it.
TimedOutAtTimeout(current_time, last_active_time) ==
    (current_time - last_active_time) >= SESSION_TIMEOUT_SECONDS

\* line 96: the session has timed out
TimedOut(current_time, last_active_time) ==
    (current_time - last_active_time) > SESSION_TIMEOUT_SECONDS

\* get_active_session_history: the history handed to the turn, and the two
\* stores as the call leaves them.
get_active_session_history(conv_id, current_time, histories, last_activity) ==
    IF conv_id \in DOMAIN histories
    THEN LET last_active_time ==
               IF conv_id \in DOMAIN last_activity
               THEN last_activity[conv_id] ELSE 0
         IN  IF TimedOut(current_time, last_active_time)
             THEN [history |-> <<>>,
                   histories |-> Pop(histories, conv_id),
                   last_activity |-> Pop(last_activity, conv_id)]
             ELSE [history |-> histories[conv_id],
                   histories |-> histories,
                   last_activity |-> last_activity]
    ELSE [history |-> <<>>, histories |-> histories,
          last_activity |-> last_activity]

HistoryMessage(role, content) == [role |-> role, content |-> content]

\* The 503 bodies of handle_query_api and the messages of websocket_endpoint
\* sent before closing: the first carries the stored error text.
Unavailable(error) == Text("unavailable", "", 0, FALSE, <<>>, "", error)
NotReady == Fixed("not_ready")

\* x or default, for an optional conversation id ("" stands for None)
OrElse(x, default) == IF x = "" THEN default ELSE x

\* What a turn found in the session stores when it began.
SessionRead(conv_id, current_time, histories, last_activity) ==
    LET loaded == get_active_session_history(conv_id, current_time,
                                             histories, last_activity)
    IN  [had_history |-> conv_id \in DOMAIN histories,
         stored |-> IF conv_id \in DOMAIN histories
                    THEN histories[conv_id] ELSE <<>>,
         idle |-> IF conv_id \in DOMAIN last_activity
                  THEN current_time - last_activity[conv_id] ELSE -1,
         history |-> loaded.history,
         pruned |-> /\ conv_id \notin DOMAIN loaded.histories
                    /\ conv_id \notin DOMAIN loaded.last_activity]

NoSessionRead ==
    [had_history |-> FALSE, stored |-> <<>>, idle |-> -1, history |-> <<>>,
     pruned |-> FALSE]

\* Mutant: the turn stores the history but not the time of the activity.
RunTurnForgetsActivity(conv_id, query, current_history, loaded, components, sessions, now, world) ==
    { [status |-> 200, response |-> out.response,
       conversation_id |-> conv_id, out |-> out,
       histories |-> Put(loaded.histories, conv_id,
                         LastN(current_history
                                 \o <<HistoryMessage("user", Plain(query)),
                                      HistoryMessage("assistant", out.response)>>,
                               MAX_HISTORY_LENGTH * 2)),
       last_activity |-> loaded.last_activity,
       sessions |-> out.sessions]
      : out \in process_query(query, current_history, components, conv_id,
                              sessions, world) }

\* Lines 138-152 and 190-206, the same in both transports: load the
\* history, process the query, append the two messages, store the last
\* 2 * MAX_HISTORY_LENGTH of them and the time.  No await lies between the
\* load and the store, so the event loop runs them as one step.
RunTurn(conv_id, query, current_history, loaded, components, sessions, now, world) ==
    { LET appended ==
            current_history
              \o <<HistoryMessage("user", Plain(query)),
                   HistoryMessage("assistant", out.response)>>
      IN  [status |-> 200, response |-> out.response,
           conversation_id |-> conv_id, out |-> out,
           histories |-> Put(loaded.histories, conv_id,
                             LastN(appended, MAX_HISTORY_LENGTH * 2)),
           last_activity |-> Put(loaded.last_activity, conv_id, now),
           sessions |-> out.sessions]
      : out \in process_query(query, current_history, components, conv_id,
                              sessions, world) }

\* Mutant: a history that expires takes the conversation's cursor with it.
TurnExpiryDropsCursor(conv_id, query, components, histories, last_activity, sessions, now, world) ==
    LET loaded == get_active_session_history(conv_id, now, histories,
                                             last_activity)
    IN  RunTurn(conv_id, query, loaded.history, loaded, components,
                IF conv_id \in DOMAIN histories
                     /\ conv_id \notin DOMAIN loaded.histories
                THEN Del(sessions, conv_id) ELSE sessions,
                now, world)

\* The turn of either transport, from its first line to its last.
Turn(conv_id, query, components, histories, last_activity, sessions, now, world) ==
    LET loaded == get_active_session_history(conv_id, now, histories,
                                             last_activity)
    IN  RunTurn(conv_id, query, loaded.history, loaded, components, sessions,
                now, world)

\* Mutant: the guards are missing and every request is served.
RefusalForgotten(components) == Fixed("")

\* The two guards at the head of both transports (lines 123-134, 169-179).
Refusal(components) ==
    IF components.initialization_error # <<>>
    THEN Unavailable(components.initialization_error)
    ELSE IF ~components.llm_chains THEN NotReady
    ELSE Fixed("")

\* handle_query_api: every result of one request.
handle_query_api(request, generated, components, histories, last_activity, sessions, now, world) ==
    IF Refusal(components) # Fixed("")
    THEN { [status |-> 503, response |-> Refusal(components),
            conversation_id |-> OrElse(request.conversation_id, generated),
            out |-> Shortcut("", Fixed(""), sessions),
            histories |-> histories, last_activity |-> last_activity,
            sessions |-> sessions] }
    ELSE Turn(OrElse(request.conversation_id, generated), request.query,
              components, histories, last_activity, sessions, now, world)

\* health_check: unhealthy with the stored error text after a failed
\* startup, unhealthy without llm_chains, else healthy with the number of
\* stored histories.
health_check(components, histories) ==
    IF components.initialization_error # <<>>
    THEN [status |-> "unhealthy",
          reason |-> Plain(components.initialization_error),
          active_sessions |-> -1]
    ELSE IF ~components.llm_chains
    THEN [status |-> "unhealthy", reason |-> Fixed("not_initialized_reason"),
          active_sessions |-> -1]
    ELSE [status |-> "healthy", reason |-> Fixed(""),
          active_sessions |-> Cardinality(DOMAIN histories)]

(***************************************************************************)
(* The pipeline specification: process_query called with every query of    *)
(* Queries for either conversation, against cursors a product listing      *)
(* left behind.                                                            *)
(***************************************************************************)
Queries ==
    { <<"m", "o", "r", "e">>, <<" ", "O", "K", " ">>, <<"s", "m", "o", "k", "y", " ", "r", "i", "n", "g">>, <<"s", "h", "i", "p", "p", "i", "n", "g">>, <<"h", "e", "l", "l", "o">>, <<"r", "e", "f", "u", "n", "d">>,
      <<"g", "o", "l", "d">>, <<"w", "h", "a", "t", " ", "i", "s", " ", "v", "a", "s", "u", "k", "i">>, <<"T", "h", "a", "n", "k", " ", "y", "o", "u">>,
      <<"R", "I", "N", "G", "0", "2">> }

PipelineConv == "A"

InitializedComponents ==
    [embedding_model |-> TRUE, llm |-> TRUE, llm_chains |-> TRUE,
     initialization_error |-> <<>>]

(***************************************************************************)
(* session_manager.py: the slot store.  An Optional value is <<>> for None *)
(* and <<v>> for a value.  ProductSearchState is a pydantic model whose    *)
(* two price fields carry an alias and which sets no populate_by_name:     *)
(* the constructor reads the text fields under their names and the price   *)
(* fields under their aliases only, and ignores every other key.           *)
(***************************************************************************)
None == <<>>
Some(v) == <<v>>

\* A Python value: a str or a number.
Str(s) == [type |-> "str", str |-> s, num |-> 0]
Num(n) == [type |-> "num", str |-> "", num |-> n]

TextFields == {"category", "subcategory", "stone", "color", "finish"}
PriceFields == {"min_price", "max_price"}
SlotFields == TextFields \cup PriceFields

\* Field(default=None, alias=...)
AliasOf(field) ==
    IF field = "min_price" THEN "price_min"
    ELSE IF field = "max_price" THEN "price_max"
    ELSE field

\* ProductSearchState(): every field at its default
DefaultState == [f \in SlotFields |-> None]

\* The values an update may carry: texts (the empty string among them) and
\* numbers.
TextValues == {Str("gold"), Str("")}
PriceValues == {Num(0), Num(100), Num(-5)}

IsText(v) == v = None \/ v[1].type = "str"
IsNumber(v) == v = None \/ v[1].type = "num"

\* Mutant: the dump is keyed by alias, with the two price aliases crossed.
ModelDumpCrossedAliases(state) ==
    [k \in TextFields \cup {"price_min", "price_max"} |->
       IF k = "price_min" THEN state["max_price"]
       ELSE IF k = "price_max" THEN state["min_price"]
       ELSE state[k]]

\* session.model_dump(): the fields under their names
model_dump(state) == state

\* Mutant: keys given None are skipped, so a slot cannot be cleared.
DictUpdateSkipsNone(d, u) ==
    [k \in (DOMAIN d) \cup {x \in DOMAIN u : u[x] # None} |->
       IF k \in DOMAIN u /\ u[k] # None THEN u[k] ELSE d[k]]

\* dict.update
DictUpdate(d, u) ==
    [k \in (DOMAIN d) \cup (DOMAIN u) |-> IF k \in DOMAIN u THEN u[k] ELSE d[k]]

\* The key the constructor reads a field from.
InputKey(field) == AliasOf(field)

\* ProductSearchState(**kwargs) passes validation: Optional[str] takes a
\* str or None, Optional[float] a number or None.
Validates(kwargs) ==
    \A f \in SlotFields :
       InputKey(f) \in DOMAIN kwargs =>
          IF f \in TextFields THEN IsText(kwargs[InputKey(f)])
          ELSE IsNumber(kwargs[InputKey(f)])

\* ProductSearchState(**kwargs), when it validates
Construct(kwargs) ==
    [f \in SlotFields |->
       IF InputKey(f) \in DOMAIN kwargs THEN kwargs[InputKey(f)] ELSE None]

get_or_create_session(sessions, session_id) ==
    IF session_id \notin DOMAIN sessions
    THEN Put(sessions, session_id, DefaultState)
    ELSE sessions

\* update_session: the store it leaves, and whether the constructor raised
\* (the session get_or_create_session made stays in the store).
update_session(sessions, session_id, updates) ==
    LET created == get_or_create_session(sessions, session_id)
        session == created[session_id]
        new_state == DictUpdate(model_dump(session), updates)
    IN  IF Validates(new_state)
        THEN [raised |-> FALSE,
              sessions |-> Put(created, session_id, Construct(new_state))]
        ELSE [raised |-> TRUE, sessions |-> created]

clear_session(sessions, session_id) ==
    IF session_id \in DOMAIN sessions THEN Del(sessions, session_id)
    ELSE sessions

(***************************************************************************)
(* State and actions.                                                      *)
(***************************************************************************)
NoCursor == [results |-> <<>>, index |-> 0]

\* event: the last operation, its arguments, what the turn found in the
\* stores when it began (session, had_cursor, the cursor read on the
\* show-more path), whether another request for the same conversation was
\* waiting while it ran, and its outcome.
NoEvent ==
    [op |-> "none", transport |-> "", conversation_id |-> "", query |-> <<>>,
     status |-> 0, response |-> Fixed(""), session |-> NoSessionRead, overlapped |-> FALSE,
     had_cursor |-> FALSE, cursor |-> NoCursor,
     out |-> Shortcut("", Fixed(""), <<>>)]

Note(op, conversation_id) ==
    [NoEvent EXCEPT !.op = op, !.conversation_id = conversation_id]

\* A handler: a request of handle_query_api, or a connection of
\* websocket_endpoint with its locals.
FreeHandler ==
    [kind |-> "free", pc |-> "idle", ws_conv_id |-> "",
     conversation_id |-> "", query |-> <<>>, current_history |-> <<>>]

Slots == {1, 2}

Init ==
    /\ llm_application_components = NoComponents
    /\ startup_done = FALSE
    /\ conversation_histories = <<>>
    /\ conversation_last_activity = <<>>
    /\ product_recommendation_sessions = <<>>
    /\ user_sessions = <<>>
    /\ clock = 1700000000
    /\ handlers = [h \in Slots |-> FreeHandler]
    /\ steps = [turns |-> 0, ticks |-> 0, calls |-> 0]
    /\ event = NoEvent

\* A product listing longer than one batch leaves a cursor over its result
\* set for the conversation, at the start of the set.
StoreRecommendations(conversation_id, n) ==
    /\ product_recommendation_sessions' =
         Put(product_recommendation_sessions, conversation_id,
             [results |-> [i \in 1..n |-> i], index |-> 0])
    /\ event' = Note("store_recommendations", conversation_id)
    /\ UNCHANGED <<server_vars, user_sessions>>

\* A cursor over n records standing at any position inside its result set.
StoreCursor(conversation_id, n, index) ==
    /\ product_recommendation_sessions' =
         Put(product_recommendation_sessions, conversation_id,
             [results |-> [i \in 1..n |-> i], index |-> index])
    /\ event' = Note("store_cursor", conversation_id)
    /\ UNCHANGED <<server_vars, user_sessions>>

\* process_query called on its own, with the components in place.
ProcessQueryCall(conversation_id, query_text) ==
    \E out \in process_query(query_text, <<>>, InitializedComponents,
                             conversation_id, product_recommendation_sessions,
                             AnyWorld) :
        /\ product_recommendation_sessions' = out.sessions
        /\ event' =
             [NoEvent EXCEPT
                !.op = "process_query",
                !.conversation_id = conversation_id,
                !.query = query_text,
                !.had_cursor =
                  conversation_id \in DOMAIN product_recommendation_sessions,
                !.cursor =
                  IF out.path = "show_more"
                  THEN product_recommendation_sessions[conversation_id]
                  ELSE NoCursor,
                !.out = out]
        /\ UNCHANGED <<server_vars, user_sessions>>

\* startup_event runs once, before any request is served.
Startup(failure) ==
    /\ ~startup_done
    /\ startup_done' = TRUE
    /\ llm_application_components' = startup_event(failure)
    /\ event' = Note("startup", "")
    /\ UNCHANGED <<conversation_histories, conversation_last_activity,
                   product_recommendation_sessions, user_sessions, clock,
                   handlers, steps>>

\* Time passes.
Tick(d, max_ticks) ==
    /\ steps.ticks < max_ticks
    /\ clock' = clock + d
    /\ steps' = [steps EXCEPT !.ticks = @ + 1]
    /\ event' = Note("tick", "")
    /\ UNCHANGED <<llm_application_components, startup_done,
                   conversation_histories, conversation_last_activity,
                   product_recommendation_sessions, user_sessions, handlers>>

\* GET /health: the probe's answer is recorded; nothing is changed.
HealthCheck ==
    /\ startup_done
    /\ event' = Note("health", "")
                   @@ [health |-> health_check(llm_application_components,
                                               conversation_histories)]
    /\ UNCHANGED <<server_vars, product_recommendation_sessions,
                   user_sessions>>

\* The conversation a waiting handler will run its turn for.
TargetOf(handler) ==
    IF handler.kind = "ws" /\ handler.ws_conv_id # ""
    THEN handler.ws_conv_id
    ELSE handler.conversation_id

Waiting(h) == handlers[h].kind # "free" /\ handlers[h].pc = "received"

TurnEvent(h, transport, res, conv_id) ==
    [NoEvent EXCEPT
       !.op = "turn",
       !.transport = transport,
       !.conversation_id = conv_id,
       !.query = handlers[h].query,
       !.status = res.status,
       !.response = res.response,
       !.session =
         IF res.status = 200
         THEN SessionRead(conv_id, clock, conversation_histories,
                          conversation_last_activity)
         ELSE NoSessionRead,
       !.overlapped =
         \E g \in Slots \ {h} :
           Waiting(g) /\ TargetOf(handlers[g]) = conv_id,
       !.had_cursor = conv_id \in DOMAIN product_recommendation_sessions,
       !.cursor =
         IF res.out.path = "show_more"
         THEN product_recommendation_sessions[conv_id]
         ELSE NoCursor,
       !.out = res.out]

\* A POST /query arrives and its handler is scheduled.
HttpRequest(h, conversation_id, query, max_turns) ==
    /\ startup_done
    /\ handlers[h].kind = "free"
    /\ steps.turns < max_turns
    /\ handlers' = [handlers EXCEPT
                      ![h] = [FreeHandler EXCEPT
                                !.kind = "http", !.pc = "received",
                                !.conversation_id = conversation_id,
                                !.query = query]]
    /\ steps' = [steps EXCEPT !.turns = @ + 1]
    /\ event' = Note("http_request", conversation_id)
    /\ UNCHANGED <<llm_application_components, startup_done,
                   conversation_histories, conversation_last_activity,
                   product_recommendation_sessions, user_sessions, clock>>


GeneratedIds == {"session_1"}

\* Mutant: handle_query_api yields to the event loop between loading the
\* history and storing it (as it would with an awaited process_query).
HttpHandleYielding(h, world) ==
    /\ handlers[h].kind = "http"
    /\ \/ /\ handlers[h].pc = "received"
          /\ \E generated \in GeneratedIds :
             LET conv_id == OrElse(handlers[h].conversation_id, generated)
                 loaded == get_active_session_history(
                             conv_id, clock, conversation_histories,
                             conversation_last_activity)
             IN  /\ conversation_histories' = loaded.histories
                 /\ conversation_last_activity' = loaded.last_activity
                 /\ handlers' = [handlers EXCEPT
                                   ![h].pc = "loaded",
                                   ![h].conversation_id = conv_id,
                                   ![h].current_history = loaded.history]
          /\ event' = Note("load", handlers[h].conversation_id)
          /\ UNCHANGED product_recommendation_sessions
       \/ /\ handlers[h].pc = "loaded"
          /\ \E res \in RunTurn(handlers[h].conversation_id,
                                 handlers[h].query,
                                 handlers[h].current_history,
                                 [histories |-> conversation_histories,
                                  last_activity |-> conversation_last_activity],
                                 llm_application_components,
                                 product_recommendation_sessions, clock,
                                 world) :
                /\ conversation_histories' = res.histories
                /\ conversation_last_activity' = res.last_activity
                /\ product_recommendation_sessions' = res.sessions
                /\ event' = TurnEvent(h, "http", res, res.conversation_id)
          /\ handlers' = [handlers EXCEPT ![h] = FreeHandler]
    /\ UNCHANGED <<llm_application_components, startup_done, user_sessions,
                   clock, steps>>

\* handle_query_api runs, from its first line to its return.
HttpHandle(h, world) ==
    /\ handlers[h].kind = "http"
    /\ handlers[h].pc = "received"
    /\ \E generated \in GeneratedIds :
       \E res \in handle_query_api(handlers[h], generated,
                                   llm_application_components,
                                   conversation_histories,
                                   conversation_last_activity,
                                   product_recommendation_sessions, clock,
                                   world) :
          /\ conversation_histories' = res.histories
          /\ conversation_last_activity' = res.last_activity
          /\ product_recommendation_sessions' = res.sessions
          /\ event' = TurnEvent(h, "http", res, res.conversation_id)
    /\ handlers' = [handlers EXCEPT ![h] = FreeHandler]
    /\ UNCHANGED <<llm_application_components, startup_done, user_sessions,
                   clock, steps>>

\* websocket_endpoint up to its receive loop: the connection is accepted;
\* after a failed startup it is sent the unavailable message and closed.
WsConnect(h) ==
    /\ startup_done
    /\ handlers[h].kind = "free"
    /\ IF Refusal(llm_application_components) # Fixed("")
       THEN /\ event' = [Note("ws_refused", "error_session") EXCEPT
                           !.transport = "ws",
                           !.out = Shortcut("", Refusal(llm_application_components),
                                            product_recommendation_sessions)]
            /\ UNCHANGED handlers
       ELSE /\ event' = [Note("ws_connect", "") EXCEPT !.transport = "ws"]
            /\ handlers' = [handlers EXCEPT
                              ![h] = [FreeHandler EXCEPT !.kind = "ws"]]
    /\ UNCHANGED <<llm_application_components, startup_done,
                   conversation_histories, conversation_last_activity,
                   product_recommendation_sessions, user_sessions, clock,
                   steps>>

\* receive_json returns a message of the client.
WsReceive(h, conversation_id, query, max_turns) ==
    /\ handlers[h].kind = "ws"
    /\ handlers[h].pc = "idle"
    /\ steps.turns < max_turns
    /\ handlers' = [handlers EXCEPT
                      ![h].pc = "received",
                      ![h].conversation_id = conversation_id,
                      ![h].query = query]
    /\ steps' = [steps EXCEPT !.turns = @ + 1]
    /\ event' = [Note("ws_receive", conversation_id) EXCEPT !.transport = "ws"]
    /\ UNCHANGED <<llm_application_components, startup_done,
                   conversation_histories, conversation_last_activity,
                   product_recommendation_sessions, user_sessions, clock>>

\* line 187-188: the connection's conversation id is fixed by its first
\* message
WsConvId(ws_conv_id, client_conv_id, generated) ==
    IF ws_conv_id = "" THEN OrElse(client_conv_id, generated) ELSE ws_conv_id

\* Lines 184-208: one pass of the receive loop, up to send_json.
WsHandle(h, world) ==
    /\ handlers[h].kind = "ws"
    /\ handlers[h].pc = "received"
    /\ \E generated \in GeneratedIds :
       LET ws_conv_id == WsConvId(handlers[h].ws_conv_id,
                                  handlers[h].conversation_id, generated)
       IN  /\ \E res \in Turn(ws_conv_id, handlers[h].query,
                              llm_application_components,
                              conversation_histories,
                              conversation_last_activity,
                              product_recommendation_sessions, clock, world) :
                /\ conversation_histories' = res.histories
                /\ conversation_last_activity' = res.last_activity
                /\ product_recommendation_sessions' = res.sessions
                /\ event' = TurnEvent(h, "ws", res, ws_conv_id)
           /\ handlers' = [handlers EXCEPT
                             ![h] = [FreeHandler EXCEPT
                                       !.kind = "ws",
                                       !.ws_conv_id = ws_conv_id]]
    /\ UNCHANGED <<llm_application_components, startup_done, user_sessions,
                   clock, steps>>

\* The client goes away while the handler waits in receive_json.
WsDisconnect(h) ==
    /\ handlers[h].kind = "ws"
    /\ handlers[h].pc = "idle"
    /\ handlers' = [handlers EXCEPT ![h] = FreeHandler]
    /\ event' = [Note("ws_disconnect", "") EXCEPT !.transport = "ws"]
    /\ UNCHANGED <<llm_application_components, startup_done,
                   conversation_histories, conversation_last_activity,
                   product_recommendation_sessions, user_sessions, clock,
                   steps>>

(***************************************************************************)
(* Specifications.                                                         *)
(***************************************************************************)
\* Spec: process_query on its own, for every query of Queries and every
\* behaviour of the collaborators.
Next ==
    \/ \E n \in 1..MaxResults : StoreRecommendations(PipelineConv, n)
    \/ \E q \in Queries : ProcessQueryCall(PipelineConv, q)

Spec == Init /\ [][Next]_vars

\* SpecCursor: process_query against cursors that stand anywhere inside
\* their result sets.
NextCursor ==
    \/ \E n \in 1..MaxResults, i \in 0..(MaxResults - 1) :
         i < n /\ StoreCursor(PipelineConv, n, i)
    \/ \E q \in Queries : ProcessQueryCall(PipelineConv, q)

SpecCursor == Init /\ [][NextCursor]_vars

\* The queries and the collaborators of the server specifications: the
\* intent chain is down, so the rule-based classifier decides; retrieval
\* finds one page and generation answers.
ServerQueries == { <<"g", "o", "l", "d">>, <<"r", "e", "f", "u", "n", "d">> }

ServerWorld ==
    [llm |-> {Raised},
     retrieval |-> {Returned(<< <<"r", "1">> >>)},
     generation |-> {Returned(<<"s", "e", "e", " ", "r", "1">>)}]

MaxTurns == 3        \* requests accepted in a run
MaxTicks == 2        \* clock steps in a run

TickSteps == {1, SESSION_TIMEOUT_SECONDS}

\* SpecSessions: HTTP turns of two conversations, one at a time, while the
\* clock moves by a second or by the session timeout.
NextSessions ==
    \/ \E f \in StartupFailures : Startup(f)
    \/ \E d \in TickSteps : Tick(d, MaxTicks)
    \/ \E c \in ConvIds, q \in ServerQueries : HttpRequest(1, c, q, MaxTurns)
    \/ HttpHandle(1, ServerWorld)
    \/ HealthCheck

SpecSessions == Init /\ [][NextSessions]_vars

\* SpecConcurrent: two handlers, of either transport, with requests for the
\* same or for different conversations waiting at the same time.
NextConcurrent ==
    \/ Startup("")
    \/ \E h \in Slots, c \in ConvIds, q \in ServerQueries :
         HttpRequest(h, c, q, MaxTurns)
    \/ \E h \in Slots : HttpHandle(h, ServerWorld)
    \/ \E h \in Slots : WsConnect(h)
    \/ \E h \in Slots, c \in ConvIds, q \in ServerQueries :
         WsReceive(h, c, q, MaxTurns)
    \/ \E h \in Slots : WsHandle(h, ServerWorld)
    \/ \E h \in Slots : WsDisconnect(h)

SpecConcurrent == Init /\ [][NextConcurrent]_vars

\* SpecHistory: one conversation, served over HTTP by handler 1 and over a
\* WebSocket connection by handler 2, for more turns than the history keeps.
MaxHistoryTurns == 11

NextHistory ==
    \/ Startup("")
    \/ \E q \in ServerQueries : HttpRequest(1, "A", q, MaxHistoryTurns)
    \/ HttpHandle(1, ServerWorld)
    \/ WsConnect(2)
    \/ \E q \in ServerQueries : WsReceive(2, "A", q, MaxHistoryTurns)
    \/ WsHandle(2, ServerWorld)

SpecHistory == Init /\ [][NextHistory]_vars

\* The update objects of SpecSlots: every single key with every value, a
\* text given a number, and some updates of two keys.
UpdateKeys == SlotFields \cup {"price_min", "price_max"}

OneKey(k, v) == [x \in {k} |-> v]
TwoKeys(k1, v1, k2, v2) == [x \in {k1, k2} |-> IF x = k1 THEN v1 ELSE v2]

Updates ==
    {OneKey(k, v) : k \in TextFields, v \in {None} \cup {Some(t) : t \in TextValues}}
    \cup {OneKey(k, v) : k \in UpdateKeys \ TextFields,
                         v \in {None} \cup {Some(n) : n \in PriceValues}}
    \cup {OneKey("color", Some(Num(100)))}
    \cup {TwoKeys("category", Some(Str("gold")), "max_price", Some(Num(100))),
          TwoKeys("min_price", Some(Num(0)), "max_price", Some(Num(100))),
          TwoKeys("price_min", Some(Num(0)), "price_max", Some(Num(100))),
          TwoKeys("color", None, "stone", Some(Str("gold")))}

MaxCalls == 2        \* calls of session_manager in a run

SlotEvent(op, session_id, updates, raised) ==
    [NoEvent EXCEPT !.op = op, !.conversation_id = session_id] @@
    [updates |-> updates, raised |-> raised,
     existed |-> session_id \in DOMAIN user_sessions,
     before |-> IF session_id \in DOMAIN user_sessions
                THEN user_sessions[session_id] ELSE DefaultState]

SlotFrame ==
    /\ steps' = [steps EXCEPT !.calls = @ + 1]
    /\ UNCHANGED <<llm_application_components, startup_done,
                   conversation_histories, conversation_last_activity,
                   product_recommendation_sessions, clock, handlers>>

GetOrCreateSession(session_id) ==
    /\ steps.calls < MaxCalls
    /\ user_sessions' = get_or_create_session(user_sessions, session_id)
    /\ event' = SlotEvent("get_or_create_session", session_id, <<>>, FALSE)
    /\ SlotFrame

UpdateSession(session_id, updates) ==
    /\ steps.calls < MaxCalls
    /\ LET res == update_session(user_sessions, session_id, updates)
       IN  /\ user_sessions' = res.sessions
           /\ event' = SlotEvent("update_session", session_id, updates,
                                 res.raised)
    /\ SlotFrame

ClearSession(session_id) ==
    /\ steps.calls < MaxCalls
    /\ user_sessions' = clear_session(user_sessions, session_id)
    /\ event' = SlotEvent("clear_session", session_id, <<>>, FALSE)
    /\ SlotFrame

\* SpecSlots: the three functions of session_manager called in any order.
NextSlots ==
    \/ \E id \in ConvIds : GetOrCreateSession(id)
    \/ \E id \in ConvIds, u \in Updates : UpdateSession(id, u)
    \/ \E id \in ConvIds : ClearSession(id)

SpecSlots == Init /\ [][NextSlots]_vars

\* SpecServer: the whole server.  Startup succeeds or fails at any stage;
\* handler 1 serves HTTP requests for either conversation and handler 2
\* accepts WebSocket connections; the clock moves past the timeout;
\* conversations have cursors, and "B" a slot state, in place before the
\* first request.  The intent chain is down, so "ring" is a product query by the
\* rules; retrieval finds nothing.
ServerTurnQueries == { <<"r", "i", "n", "g">>, <<"m", "o", "r", "e">> }

ServerTurnWorld ==
    [llm |-> {Raised},
     retrieval |-> {Returned(<<>>)},
     generation |-> {Returned(<<"s", "e", "e", " ", "r", "1">>)}]

NextServer ==
    \/ \E f \in StartupFailures : Startup(f)
    \/ Tick(SESSION_TIMEOUT_SECONDS + 1, MaxTicks)
    \/ \E c \in ConvIds, q \in ServerTurnQueries : HttpRequest(1, c, q, MaxTurns)
    \/ HttpHandle(1, ServerTurnWorld)
    \/ WsConnect(2)
    \/ WsDisconnect(2)
    \/ \E c \in ConvIds :
         steps.turns = 0 /\ StoreRecommendations(c, BatchSize + 1)
    \/ steps.turns = 0 /\ UpdateSession("B", OneKey("stone", Some(Str("gold"))))

SpecServer == Init /\ [][NextServer]_vars

(***************************************************************************)
(* Properties of process_query, checked under Spec.                        *)
(***************************************************************************)
IsTurn == event.op = "process_query"
ShowMoreTurn == IsTurn /\ event.out.path = "show_more"
NewQueryTurn ==
    IsTurn /\ event.out.path \in {"greeting_shortcut", "classified"}

ContinuationPhrases ==
    {ContinuationWords[i] : i \in 1..Len(ContinuationWords)}

\* C2: a continuation turn on a cursor at index i over N records discloses
\* records i+1 .. min(i+3, N) under their own numbers; if records remain it
\* ends with the continuation prompt and the cursor stands at i+3, else it
\* ends with the closing statement and the conversation has no cursor.
\* Every stored cursor stands at a multiple of 3 inside its result set, so
\* the batches from index 0 are 1-3, 4-6, 7-9, ... with nothing skipped or
\* repeated.
C2_PaginationBatches ==
    /\ \A c \in DOMAIN product_recommendation_sessions :
         LET cur == product_recommendation_sessions[c]
         IN  cur.index % 3 = 0 /\ cur.index < Len(cur.results)
    /\ ShowMoreTurn =>
         LET cur == event.cursor
             n == Len(cur.results)
             i == cur.index
             r == event.out.response
             c == event.conversation_id
         IN  /\ r.kind = "batch"
             /\ r.header = (i = 0)
             /\ r.items = [k \in 1..Min(3, n - i) |->
                             [number |-> i + k, record |-> cur.results[i + k]]]
             /\ IF i + 3 < n
                THEN /\ r.tail = "prompt"
                     /\ c \in DOMAIN product_recommendation_sessions
                     /\ product_recommendation_sessions[c] =
                          [results |-> cur.results, index |-> i + 3]
                ELSE /\ r.tail = "closing"
                     /\ c \notin DOMAIN product_recommendation_sessions

\* The third continuation over 7 records: record 7 alone, the closing
\* statement, no cursor left.
C2_Witness ==
    /\ ShowMoreTurn
    /\ Len(event.cursor.results) = 7
    /\ event.cursor.index = 6
    /\ event.out.response.items = <<[number |-> 7, record |-> 7]>>
    /\ event.out.response.tail = "closing"
    /\ event.conversation_id \notin DOMAIN product_recommendation_sessions

C4_ContinuationOnlyOnPhrase ==
    ShowMoreTurn =>
        /\ event.had_cursor
        /\ Strip(Lower(event.query)) \in ContinuationPhrases

\* C7: a product_query turn whose retrieval failed or found nothing answers
\* with the fixed no-results apology and invokes no generation chain.
C7_EmptyRetrievalApology ==
    (/\ IsTurn
     /\ event.out.intent = product_query
     /\ (event.out.retrieval.raised \/ event.out.context = <<>>))
    => /\ event.out.response = NoResultsApology
       /\ event.out.chain = ""
       /\ event.out.generation = NotCalled

C7_Witness ==
    /\ IsTurn
    /\ event.out.intent = product_query
    /\ event.out.collection = "products"
    /\ event.out.retrieval.raised
    /\ event.out.response = NoResultsApology

\* C8: when the intent chain raises, the turn still returns a response and
\* is dispatched under the rule-based classifier's label for the query.
C8_ClassifierErrorFallsBack ==
    (IsTurn /\ event.out.llm_called /\ event.out.llm.raised)
    => /\ event.out.intent = classify_intent_rules(event.query)
       /\ event.out.intent \in ValidIntentSet
       /\ event.out.response.kind \in {"fixed", "canned", "generated"}

C8_Witness ==
    /\ IsTurn
    /\ event.out.llm_called
    /\ event.out.llm.raised
    /\ event.out.intent = product_query
    /\ event.out.response.kind = "generated"

\* The response branch that belongs to an intent.
BranchOf(intent) ==
    IF intent = greeting THEN "greeting"
    ELSE IF intent = product_query THEN "products"
    ELSE IF intent \in {return_policy, shipping_policy, privacy_policy}
    THEN "policies"
    ELSE IF intent = general_faq THEN "faqs"
    ELSE "fallback"

BranchTaken(out) ==
    IF out.response.kind = "canned" THEN "greeting"
    ELSE IF out.collection # "" THEN out.collection
    ELSE IF out.response = WhatIsVasukiAnswer THEN "faqs"
    ELSE "fallback"

\* C9: every turn that is not a continuation is classified, and answered by
\* the branch of its classified intent.
C9_EveryNewQueryClassified ==
    NewQueryTurn =>
        /\ event.out.llm_called
        /\ BranchTaken(event.out) = BranchOf(event.out.intent)

\* C10: a model output that normalises to a valid label is the label the
\* turn is dispatched under.
C10_ValidLabelKept ==
    (/\ IsTurn
     /\ event.out.llm_called
     /\ ~event.out.llm.raised
     /\ CleanIntent(event.out.llm.value) \in ValidIntentSet)
    => event.out.intent = CleanIntent(event.out.llm.value)

(***************************************************************************)
(* Properties of the session stores, checked under SpecSessions.           *)
(***************************************************************************)
CompletedTurn == event.op = "turn" /\ event.status = 200

TurnMessages(query, response) ==
    <<HistoryMessage("user", Plain(query)),
      HistoryMessage("assistant", response)>>

\* C1: for a conversation with stored history, get_active_session_history
\* returns the empty history and removes the history and the last-activity
\* entry exactly when now - last_activity exceeds 20 minutes; otherwise, an
\* idle time of exactly 20 minutes included, it returns the stored history
\* and changes nothing.  It holds of the call a turn would make in any
\* reachable state, and of the call every completed turn did make, whose
\* history is the one the turn then extended and stored.
C1_ExpiryOnlyPastTimeout ==
    /\ \A c \in DOMAIN conversation_histories :
         c \in DOMAIN conversation_last_activity =>
           LET r == get_active_session_history(
                      c, clock, conversation_histories,
                      conversation_last_activity)
           IN  IF clock - conversation_last_activity[c] > 20 * 60
               THEN /\ r.history = <<>>
                    /\ c \notin DOMAIN r.histories
                    /\ c \notin DOMAIN r.last_activity
               ELSE /\ r.history = conversation_histories[c]
                    /\ r.histories = conversation_histories
                    /\ r.last_activity = conversation_last_activity
    /\ (CompletedTurn /\ event.session.had_history) =>
         /\ IF event.session.idle > 20 * 60
            THEN event.session.history = <<>> /\ event.session.pruned
            ELSE /\ event.session.history = event.session.stored
                 /\ ~event.session.pruned
         /\ conversation_histories[event.conversation_id] =
              LastN(event.session.history
                      \o TurnMessages(event.query, event.out.response),
                    20)

\* A turn that found four stored messages idle for longer than the timeout
\* and began with none.
C1_Witness ==
    /\ CompletedTurn
    /\ event.session.had_history
    /\ Len(event.session.stored) = 4
    /\ event.session.idle = 20 * 60 + 1
    /\ event.session.history = <<>>
    /\ Len(conversation_histories[event.conversation_id]) = 2

(***************************************************************************)
(* Properties of concurrent turns, checked under SpecConcurrent.           *)
(***************************************************************************)
\* C5: the step in which a turn completes stores, for its conversation, the
\* history found in the store at that very step (or none, if it had timed
\* out) extended by the turn's two messages, and the time of the step: no
\* other turn's read or write falls between the turn's load and its store,
\* so no message another turn appended is lost or reordered.
C5_TurnsDoNotInterleave ==
    [][ (event'.op = "turn" /\ event'.status = 200) =>
          LET c == event'.conversation_id
              loaded == get_active_session_history(
                          c, clock, conversation_histories,
                          conversation_last_activity)
          IN  /\ c \in DOMAIN conversation_histories'
              /\ conversation_histories'[c] =
                   LastN(loaded.history
                           \o TurnMessages(event'.query, event'.out.response),
                         20)
              /\ conversation_last_activity'[c] = clock'
              /\ \A d \in (DOMAIN conversation_histories') \ {c} :
                   /\ d \in DOMAIN conversation_histories
                   /\ conversation_histories'[d] = conversation_histories[d]
      ]_vars

\* An HTTP turn that ran while a WebSocket message for the same
\* conversation was waiting, and extended a history an earlier turn stored.
C5_Witness ==
    /\ CompletedTurn
    /\ event.transport = "http"
    /\ event.overlapped
    /\ \E h \in Slots :
         /\ handlers[h].kind = "ws"
         /\ Waiting(h)
         /\ TargetOf(handlers[h]) = event.conversation_id
    /\ event.session.had_history
    /\ Len(conversation_histories[event.conversation_id]) = 4

(***************************************************************************)
(* Properties of the slot store, checked under SpecSlots.                  *)
(***************************************************************************)
UpdateCall == event.op = "update_session" /\ ~event.raised

\* C6: update_session(id, u) leaves the state that is the previous state
\* with every slot named in u set to u's value and every other slot as it
\* was.
C6_ShallowMerge ==
    UpdateCall =>
        /\ event.conversation_id \in DOMAIN user_sessions
        /\ \A f \in SlotFields :
             user_sessions[event.conversation_id][f] =
               IF f \in DOMAIN event.updates
               THEN event.updates[f]
               ELSE event.before[f]

(***************************************************************************)
(* Error handling of the generation chains, checked under Spec.            *)
(***************************************************************************)
ChainRaised ==
    /\ IsTurn
    /\ event.out.path = "classified"
    /\ event.out.chain \in {"shopify_qa", "policy", "faq"}
    /\ event.out.generation.raised

\* C11: when the chain of a product, policy or FAQ turn raises, the reply
\* is the fixed generic apology, and no text of the exception is in it.
C11_ChainErrorGivesApology ==
    ChainRaised =>
        /\ event.out.response = GenericApology
        /\ event.out.response.kind = "fixed"
        /\ ~Contains(event.out.response.text, event.out.generation.value)

\* The policy chain raised, with a message, after retrieval found pages.
C11_Witness ==
    /\ ChainRaised
    /\ event.out.chain = "policy"
    /\ event.out.generation.value = ErrorText
    /\ event.out.context # <<>>
    /\ event.out.response = GenericApology

(***************************************************************************)
(* Properties of the whole server, checked under SpecServer.               *)
(***************************************************************************)
StartupFailed == llm_application_components.initialization_error # <<>>

\* C12: once startup has failed, the stored error stays (no retry); every
\* HTTP request that is handled gets a 503 with the unavailable message,
\* every WebSocket connection is sent that message and closed; process_query
\* is not called, and no history, last-activity time or cursor is created
\* or changed by these requests.
C12_FailedStartupRefusesAll ==
    [][ StartupFailed =>
          /\ llm_application_components' = llm_application_components
          /\ event'.op \notin {"ws_connect", "ws_receive"}
          /\ \A h \in Slots : handlers'[h].kind # "ws"
          /\ event'.op = "turn" =>
                /\ event'.status = 503
                /\ event'.out.path = ""
                /\ ~event'.out.llm_called
          /\ event'.op = "turn" =>
                event'.response =
                  Unavailable(llm_application_components.initialization_error)
          /\ event'.op = "ws_refused" =>
                event'.out.response =
                  Unavailable(llm_application_components.initialization_error)
          /\ event'.op \in {"turn", "ws_refused"} =>
                /\ conversation_histories' = conversation_histories
                /\ conversation_last_activity' = conversation_last_activity
                /\ product_recommendation_sessions' =
                     product_recommendation_sessions
      ]_vars

\* A request for a conversation with a cursor, refused after startup failed
\* at its last stage.
C12_Witness ==
    /\ StartupFailed
    /\ llm_application_components.llm
    /\ event.op = "turn"
    /\ event.status = 503
    /\ event.conversation_id \in DOMAIN product_recommendation_sessions
    /\ conversation_histories = <<>>

(***************************************************************************)
(* The bound of the stored history, checked under SpecHistory.             *)
(***************************************************************************)
\* C13: every stored history has at most 20 entries, and the history a
\* completed turn stores is the end of what it loaded followed by its two
\* messages: all of it up to 20 entries, else the last 20, in their order.
C13_HistoryKeepsLastTwenty ==
    /\ [](\A c \in DOMAIN conversation_histories :
            Len(conversation_histories[c]) <= 20)
    /\ [][ (event'.op = "turn" /\ event'.status = 200) =>
            LET c == event'.conversation_id
                full == event'.session.history
                          \o TurnMessages(event'.query, event'.out.response)
                kept == conversation_histories'[c]
                dropped == Len(full) - Len(kept)
            IN  /\ Len(kept) = IF Len(full) > 20 THEN 20 ELSE Len(full)
                /\ \A i \in 1..Len(kept) : kept[i] = full[dropped + i]
          ]_vars

\* A turn that loaded a full history: its two oldest entries are gone and
\* the turn's own messages are the last two.
C13_Witness ==
    /\ CompletedTurn
    /\ Len(event.session.history) = 20
    /\ LET kept == conversation_histories[event.conversation_id]
       IN  /\ Len(kept) = 20
           /\ kept[1] = event.session.history[3]
           /\ kept[1] # event.session.history[1]
           /\ kept[19].content = Plain(event.query)
           /\ kept[20].content = event.out.response

\* The entry of key k is the same in the dicts d and e: absent in both, or
\* present in both with one value.
SameEntry(d, e, k) ==
    /\ (k \in DOMAIN d) = (k \in DOMAIN e)
    /\ (k \in DOMAIN d => d[k] = e[k])

OtherConversations(conv_id) ==
    (ConvIds \cup DOMAIN conversation_histories
             \cup DOMAIN conversation_last_activity
             \cup DOMAIN product_recommendation_sessions
             \cup DOMAIN user_sessions) \ {conv_id}

\* C14: a turn for one conversation, served or refused, pruning an expired
\* session or not, leaves the history, the last-activity time, the cursor
\* and the slot state of every other conversation as they were.
C14_TurnTouchesOnlyItsConversation ==
    [][ event'.op = "turn" =>
          \A b \in OtherConversations(event'.conversation_id) :
            /\ SameEntry(conversation_histories, conversation_histories', b)
            /\ SameEntry(conversation_last_activity,
                         conversation_last_activity', b)
            /\ SameEntry(product_recommendation_sessions,
                         product_recommendation_sessions', b)
            /\ SameEntry(user_sessions, user_sessions', b)
      ]_vars

\* A turn for "A" that pruned A's expired session while "B" had an expired
\* history still stored, a cursor and a slot state.
C14_Witness ==
    /\ CompletedTurn
    /\ event.conversation_id = "A"
    /\ event.session.pruned
    /\ "B" \in DOMAIN conversation_histories
    /\ "B" \in DOMAIN conversation_last_activity
    /\ clock - conversation_last_activity["B"] > SESSION_TIMEOUT_SECONDS
    /\ "B" \in DOMAIN product_recommendation_sessions
    /\ "B" \in DOMAIN user_sessions

(***************************************************************************)
(* The two transports compared, checked under SpecConcurrent.              *)
(***************************************************************************)
\* C15: the transports are equivalent.  Whenever the WebSocket loop handles
\* a message, its reply, the conversation id it replies under and the
\* histories, last-activity times and cursors it leaves are those
\* handle_query_api gives for the same message in the same state; so equal
\* message sequences give equal replies and equal stores, whatever
\* conversation ids the messages carry.
C15_TransportsEquivalent ==
    [][ (event'.op = "turn" /\ event'.transport = "ws") =>
          \E h \in Slots :
            /\ handlers[h].kind = "ws"
            /\ handlers[h].pc = "received"
            /\ handlers'[h].pc = "idle"
            /\ \E generated \in GeneratedIds :
               \E res \in handle_query_api(
                             handlers[h], generated,
                             llm_application_components,
                             conversation_histories,
                             conversation_last_activity,
                             product_recommendation_sessions, clock,
                             ServerWorld) :
                  /\ res.status = event'.status
                  /\ res.response = event'.response
                  /\ res.conversation_id = event'.conversation_id
                  /\ res.histories = conversation_histories'
                  /\ res.last_activity = conversation_last_activity'
                  /\ res.sessions = product_recommendation_sessions'
      ]_vars

(***************************************************************************)
(* Product listings and retrieved evidence, checked under Spec.            *)
(***************************************************************************)
ProductTurn ==
    /\ IsTurn
    /\ event.out.path = "classified"
    /\ event.out.intent = product_query

\* C16: after a product_query turn whose retrieval yields more than 3
\* records, the conversation has a cursor over that result set.
C16_LongListingLeavesCursor ==
    (ProductTurn /\ ~event.out.retrieval.raised
                 /\ Len(event.out.retrieval.value) > 3) =>
        /\ event.conversation_id \in DOMAIN product_recommendation_sessions
        /\ Len(product_recommendation_sessions[event.conversation_id].results)
             = Len(event.out.retrieval.value)

IdentifierChars ==
    {UpperAlpha[i] : i \in 1..Len(UpperAlpha)}
      \cup {"0", "1", "2", "3", "4", "5", "6", "7", "8", "9"}

\* text[from..to] is a maximal run of uppercase letters and digits, at
\* least 6 long.
IsIdentifierToken(text, from, to) ==
    /\ to - from + 1 >= 6
    /\ \A i \in from..to : text[i] \in IdentifierChars
    /\ from = 1 \/ text[from - 1] \notin IdentifierChars
    /\ to = Len(text) \/ text[to + 1] \notin IdentifierChars

IdentifierTokens(text) ==
    { SubSeq(text, r[1], r[2]) :
        r \in { p \in (1..Len(text)) \X (1..Len(text)) :
                  IsIdentifierToken(text, p[1], p[2]) } }

\* C18: when a product query holds an identifier token that is the SKU of
\* a record among the candidates retrieval found, that record is the first
\* item of the evidence, however the candidates were ranked.
C18_IdentifierFastPath ==
    (ProductTurn /\ ~event.out.retrieval.raised) =>
        \A i \in 1..Len(event.out.retrieval.value) :
          SkuOf(event.out.retrieval.value[i]) \in IdentifierTokens(event.query)
            => event.out.retrieval.value[1] = event.out.retrieval.value[i]

PolicyOrFaqTurn ==
    /\ IsTurn
    /\ event.out.path = "classified"
    /\ \/ EndsWith(event.out.intent, PolicySuffix)
       \/ /\ event.out.intent = general_faq
          /\ ~Contains(Lower(event.query), WhatIsVasuki)

\* C19: a policy or FAQ turn whose retrieval gave no passage, or failed,
\* invokes no generation chain and replies with a fixed statement that the
\* information is unavailable.
C19_NoPassageNoGeneration ==
    (PolicyOrFaqTurn /\ event.out.context = <<>>) =>
        /\ event.out.chain = ""
        /\ event.out.response.kind = "fixed"

(***************************************************************************)
(* The slot state across turns, checked under SpecServer.                  *)
(***************************************************************************)
NoResultProductTurn ==
    /\ CompletedTurn
    /\ event.out.path = "classified"
    /\ event.out.intent = product_query
    /\ event.out.context = <<>>

\* C17: after a product_query turn whose retrieval yields no results, the
\* conversation has no stored ProductSearchState; and a stored state is
\* removed by no other step.
C17_NoResultsResetSlots ==
    /\ [](NoResultProductTurn =>
            event.conversation_id \notin DOMAIN user_sessions)
    /\ [][ \A c \in DOMAIN user_sessions :
              c \notin DOMAIN user_sessions' =>
                (event'.op = "turn" /\ event'.conversation_id = c
                   /\ event'.out.intent = product_query
                   /\ event'.out.context = <<>>)
          ]_vars

(***************************************************************************)
(* Algebra of the slot merge, checked under SpecSlots.                     *)
(***************************************************************************)
\* The sessions whose entry the last call read or wrote (every session
\* before the first call): a call touches the entry of its own id only, so
\* these are the entries that are new in this state.
TouchedSessions ==
    IF event.conversation_id \in ConvIds
    THEN {event.conversation_id} ELSE ConvIds

\* C20: in every reachable slot store, for every update u, update_session(id,
\* u) applied to the store it has just produced leaves that store as it is,
\* and raises again exactly when it raised before.
C20_UpdateIdempotent ==
    \A id \in TouchedSessions, u \in Updates :
       LET once == update_session(user_sessions, id, u)
           twice == update_session(once.sessions, id, u)
       IN  /\ twice.sessions = once.sessions
           /\ twice.raised = once.raised

\* The second of two equal calls in a run: a price given by its alias is
\* stored, the call found the state the first call left and left it again.
C20_Witness ==
    /\ UpdateCall
    /\ "price_min" \in DOMAIN event.updates
    /\ event.existed
    /\ event.before # DefaultState
    /\ user_sessions[event.conversation_id] = event.before
    /\ user_sessions[event.conversation_id]["min_price"] # None
    /\ update_session(user_sessions, event.conversation_id, event.updates).sessions
         = user_sessions

(***************************************************************************)
(* Clearing and range of the slots, checked under SpecSlots.               *)
(***************************************************************************)
EmptyString == Some(Str(""))

\* The slots an update gives a null for, under the field's name or alias.
ClearedSlots(u) ==
    { f \in SlotFields :
        \/ f \in DOMAIN u /\ u[f] = None
        \/ AliasOf(f) \in DOMAIN u /\ u[AliasOf(f)] = None }

\* C21: after update_session is called with a null for a slot, the stored
\* slot is None, which is not the empty string; and an update made of nulls
\* only leaves the empty string in no slot that did not hold it before.
C21_ClearedSlotIsAbsent ==
    UpdateCall =>
        LET after == user_sessions[event.conversation_id]
        IN  /\ \A f \in ClearedSlots(event.updates) :
                 after[f] = None /\ after[f] # EmptyString
            /\ (\A k \in DOMAIN event.updates : event.updates[k] = None) =>
                 \A f \in SlotFields :
                    after[f] = EmptyString => event.before[f] = EmptyString

\* A slot that held the empty string was cleared and is None.
C21_Witness ==
    /\ UpdateCall
    /\ \E f \in ClearedSlots(event.updates) :
         /\ event.before[f] = EmptyString
         /\ user_sessions[event.conversation_id][f] = None

\* C22: in every stored ProductSearchState, min_price and max_price are
\* each None or a number that is not negative.
C22_PricesNonNegative ==
    \A id \in DOMAIN user_sessions, f \in PriceFields :
       \/ user_sessions[id][f] = None
       \/ /\ user_sessions[id][f][1].type = "num"
          /\ user_sessions[id][f][1].num >= 0

(***************************************************************************)
(* The rule-based classifier and the canned branches, checked under Spec.  *)
(***************************************************************************)
AllKeywords ==
    GreetingKeywords \o ReturnKeywords \o ShippingKeywords
      \o PrivacyKeywords \o ComplimentKeywords \o ProductKeywords

\* The turn's model classifier gave no dispatchable label, so that the
\* rule-based classifier decided.
RulesDecided ==
    /\ IsTurn
    /\ event.out.path = "classified"
    /\ event.out.llm_intent \notin DispatchIntents

\* C23: classify_intent_rules gives every query one of the eight valid
\* intents, and general_faq to a query that contains no keyword; where the
\* turn fell back to the rules, that label is the turn's intent.
C23_RulesGiveValidLabel ==
    IsTurn =>
        LET label == classify_intent_rules(event.query)
        IN  /\ label \in ValidIntentSet
            /\ ~AnyIn(AllKeywords, Lower(event.query)) => label = general_faq
            /\ RulesDecided =>
                  /\ event.out.intent \in ValidIntentSet
                  /\ event.out.intent = classify_intent_rules(event.query)

\* The rules decided a query without keywords.
C23_Witness ==
    /\ RulesDecided
    /\ ~AnyIn(AllKeywords, Lower(event.query))
    /\ event.out.intent = general_faq

\* C24: a turn whose final intent is greeting or compliment is answered
\* with a canned response, without retrieval or generation; only the intent
\* other is answered with the clarifying fallback message.
C24_CannedForGreetingAndCompliment ==
    (IsTurn /\ event.out.path = "classified") =>
        /\ event.out.intent \in {greeting, compliment} =>
              /\ event.out.response.kind = "canned"
              /\ event.out.retrieval = NotCalled
              /\ event.out.generation = NotCalled
        /\ event.out.response = FallbackMessage => event.out.intent = other

(***************************************************************************)
(* The health probe and what the clients are sent, checked under           *)
(* SpecSessions.                                                           *)
(***************************************************************************)
HealthProbe == event.op = "health"

\* The conversations whose idle time does not exceed the session timeout.
ActiveConversations ==
    { c \in DOMAIN conversation_last_activity :
        clock - conversation_last_activity[c] <= SESSION_TIMEOUT_SECONDS }

\* C25: after a successful startup the probe's active_sessions is the
\* number of conversations idle for no longer than the session timeout.
C25_HealthCountsActiveSessions ==
    (HealthProbe /\ event.health.status = "healthy") =>
        event.health.active_sessions = Cardinality(ActiveConversations)

\* The texts the last operation sent to its client.
ClientTexts ==
    IF event.op = "turn" THEN {event.response}
    ELSE IF event.op = "ws_refused" THEN {event.out.response}
    ELSE IF HealthProbe THEN {event.health.reason}
    ELSE {}

\* The messages of the exceptions caught so far: the startup error, and
\* the errors of the collaborators in the last turn.
CaughtExceptionTexts ==
    (IF StartupFailed
     THEN {llm_application_components.initialization_error} ELSE {})
    \cup
    (IF event.op = "turn" /\ (\/ event.out.llm.raised
                              \/ event.out.retrieval.raised
                              \/ event.out.generation.raised)
     THEN {ErrorText} ELSE {})

\* C26: no text sent to a client contains the message of a caught
\* exception.
C26_NoExceptionTextSent ==
    \A t \in ClientTexts, e \in CaughtExceptionTexts : ~Contains(t.text, e)

(***************************************************************************)
(* The position of a cursor, checked under SpecCursor.                     *)
(***************************************************************************)
\* C27: from cursors standing anywhere inside their result sets, every
\* stored cursor has 0 <= index < number of results after any sequence of
\* turns; a continuation turn that takes the index to the end of the result
\* set or past it deletes the cursor, and one that does not moves it by the
\* batch size.
C27_CursorInsideResults ==
    /\ \A c \in DOMAIN product_recommendation_sessions :
         LET cur == product_recommendation_sessions[c]
         IN  0 <= cur.index /\ cur.index < Len(cur.results)
    /\ ShowMoreTurn =>
         LET reached == event.cursor.index + BatchSize
             c == event.conversation_id
         IN  IF reached >= Len(event.cursor.results)
             THEN c \notin DOMAIN product_recommendation_sessions
             ELSE /\ c \in DOMAIN product_recommendation_sessions
                  /\ product_recommendation_sessions[c].index = reached

\* A cursor at 5 of 7 records: the turn shows records 6 and 7 and deletes
\* the cursor.
C27_Witness ==
    /\ ShowMoreTurn
    /\ event.cursor.index = 5
    /\ Len(event.cursor.results) = 7
    /\ Len(event.out.response.items) = 2
    /\ event.conversation_id \notin DOMAIN product_recommendation_sessions

(***************************************************************************)
(* Expiry and the other stores, checked under SpecServer.                  *)
(***************************************************************************)
\* C28: a turn that prunes the conversation's expired history leaves its
\* ProductSearchState as it was and finds its cursor as it was stored: if
\* the query holds a continuation phrase, the turn is a continuation that
\* shows the next batch of the stored result set from the stored index.
C28_ExpiryKeepsCursorAndSlots ==
    [][ (event'.op = "turn" /\ event'.status = 200 /\ event'.session.pruned) =>
          LET c == event'.conversation_id
          IN  /\ user_sessions' = user_sessions
              /\ (/\ c \in DOMAIN product_recommendation_sessions
                  /\ AnyIn(ContinuationWords, Strip(Lower(event'.query)))) =>
                    LET cur == product_recommendation_sessions[c]
                        n == Len(cur.results)
                        i == cur.index
                    IN  /\ event'.out.path = "show_more"
                        /\ event'.cursor = cur
                        /\ event'.response.kind = "batch"
                        /\ event'.response.items =
                             [k \in 1..Min(BatchSize, n - i) |->
                                [number |-> i + k, record |-> cur.results[i + k]]]
      ]_vars

\* "B", with a slot state, paged to index 3 of 4 records, went idle past
\* the timeout and asked for more: the history was pruned and record 4
\* shown.
C28_Witness ==
    /\ CompletedTurn
    /\ event.session.pruned
    /\ event.conversation_id = "B"
    /\ "B" \in DOMAIN user_sessions
    /\ event.out.path = "show_more"
    /\ event.cursor.index = BatchSize
    /\ event.response.items = <<[number |-> 4, record |-> 4]>>

(***************************************************************************)
(* The two session stores together, checked under SpecSessions.            *)
(***************************************************************************)
\* C29: in every reachable state the conversations with a stored history
\* are the conversations with a last-activity time.  A completed turn
\* leaves both entries for its conversation, the time being the time of the
\* turn, after removing both if the session had expired; no other step
\* changes either store.
C29_StoresShareTheirKeys ==
    /\ [](DOMAIN conversation_histories = DOMAIN conversation_last_activity)
    /\ [][ IF event'.op = "turn" /\ event'.status = 200
           THEN LET c == event'.conversation_id
                IN  /\ c \in DOMAIN conversation_histories'
                    /\ c \in DOMAIN conversation_last_activity'
                    /\ conversation_last_activity'[c] = clock
                    /\ (c \in DOMAIN conversation_last_activity
                          /\ clock - conversation_last_activity[c]
                                > SESSION_TIMEOUT_SECONDS)
                        => /\ event'.session.pruned
                           /\ Len(conversation_histories'[c]) = 2
           ELSE /\ conversation_histories' = conversation_histories
                /\ conversation_last_activity' = conversation_last_activity
         ]_vars

\* Both conversations have both entries, and the last turn replaced the
\* expired entries of its conversation.
C29_Witness ==
    /\ CompletedTurn
    /\ event.session.pruned
    /\ DOMAIN conversation_histories = ConvIds
    /\ DOMAIN conversation_last_activity = ConvIds
    /\ conversation_last_activity[event.conversation_id] = clock

(***************************************************************************)
(* The shape of a stored history, checked under SpecHistory.               *)
(***************************************************************************)
RoleAt(i) == IF i % 2 = 1 THEN "user" ELSE "assistant"

\* C30: every stored history has even length and alternates user,
\* assistant, user, assistant, ... from a user entry; a completed turn
\* leaves its query as the last user entry and its response as the
\* assistant entry after it, also when the history is cut to 20 entries.
C30_HistoryAlternates ==
    /\ [](\A c \in DOMAIN conversation_histories :
            LET h == conversation_histories[c]
            IN  /\ Len(h) % 2 = 0
                /\ \A i \in 1..Len(h) : h[i].role = RoleAt(i))
    /\ [][ (event'.op = "turn" /\ event'.status = 200) =>
            LET h == conversation_histories'[event'.conversation_id]
                before == event'.session.history
            IN  /\ Len(h) >= 2
                /\ h[Len(h) - 1] = HistoryMessage("user", Plain(event'.query))
                /\ h[Len(h)] = HistoryMessage("assistant", event'.response)
                /\ Len(h) = Min(Len(before) + 2, 2 * MAX_HISTORY_LENGTH)
                /\ Len(before) % 2 = 0
          ]_vars

\* A WebSocket turn on a full history: after the cut the history still
\* starts with a user entry and ends with the turn's pair.
C30_Witness ==
    /\ CompletedTurn
    /\ event.transport = "ws"
    /\ Len(event.session.history) = 2 * MAX_HISTORY_LENGTH
    /\ LET h == conversation_histories[event.conversation_id]
       IN  /\ Len(h) = 2 * MAX_HISTORY_LENGTH
           /\ h[1].role = "user"
           /\ h[1] = event.session.history[3]
           /\ h[Len(h)].role = "assistant"

====
